---------------------------- MODULE Spec2Model ----------------------------
(***************************************************************************)
(* State-machine model of the voice turn-taking pipeline of samanthaos1:   *)
(*   - the audio playback queue of LlamaChat.tsx,                          *)
(*   - the synthesis actor (openai-tts-worker.js) and speakText,           *)
(*   - the recorder hook (useOpenAIRecorder.ts, first definition),         *)
(*   - the turn dispatcher / streaming consumer (LlamaChat.tsx) and the    *)
(*     generation actor (openai-worker.js).                                *)
(* Each component has its own specification over the shared variables.     *)
(* Text is a sequence of one-character strings, so that trimming, length   *)
(* and pattern tests are computed and not assumed.                         *)
(***************************************************************************)
EXTENDS Integers, Sequences, FiniteSets, TLC

VARIABLES
  \* ---- audio playback queue (LlamaChat.tsx) ----
  audioChunkQueue,   \* useState<Blob[]>: clips waiting to be played (clip = arrival number)
  isAudioPlaying,    \* useState(false)
  audioSrc,          \* audioRef.current.src: the clip given to the audio element (0: none)
  clipCount,         \* history: number of clips that arrived so far
  evicted,           \* history: clips dropped from the queue without being played
  objectUrls,        \* the object URLs created and not revoked, one per clip
  unmounted,         \* the cleanup of the mount effect has run
  \* ---- synthesis actor (openai-tts-worker.js) ----
  ttsIsProcessing,   \* let isProcessing
  requestQueue,      \* self.requestQueue
  ttsCurrent,        \* the request whose textToSpeech call is awaited (NoRequest: none)
  ttsTimers,         \* pending setTimeout(100) re-dispatches, in the order they were set
  ttsReceived,       \* history: ids of the requests posted to the actor, in arrival order
  ttsStarted,        \* history: ids of the requests, in the order textToSpeech was called
  ttsStreamed,       \* history: ids of the requests whose audio was posted ("stream")
  ttsRefused,        \* history: ids of the requests refused with "No text provided for TTS"
  ttsIsInterrupted,  \* let isInterrupted
  \* ---- recorder hook (useOpenAIRecorder.ts, first definition) ----
  rec,               \* the hook's state and refs, one field each (see InitRec)
  \* ---- turn dispatcher and streaming consumer (LlamaChat.tsx) ----
  chat,              \* the component's state, refs and timers, one field each (see InitChat)
  \* ---- generation actor (openai-worker.js) ----
  gen                \* isProcessing, isInterrupted, the request being streamed, the events posted

playVars == <<audioChunkQueue, isAudioPlaying, audioSrc, clipCount, evicted,
              objectUrls, unmounted>>
ttsVars  == <<ttsIsProcessing, requestQueue, ttsCurrent, ttsTimers, ttsReceived,
             ttsStarted, ttsStreamed, ttsRefused, ttsIsInterrupted>>
recVars  == <<rec>>
turnVars == <<chat, gen>>
vars     == <<playVars, ttsVars, recVars, turnVars>>

-----------------------------------------------------------------------------
(* Bounds of the model *)
MaxClips  == 12   \* clips that arrive in one run
MaxSpeech == 4    \* speech requests posted in one run
MaxSessions == 2  \* recording sessions (starts) in one run
MaxBuffered == 2  \* audio chunks buffered at a time
MaxProcs == 2     \* processLatestAudio calls awaiting a decode or a transcription
MaxSubmits == 2   \* submit calls that carry text, and welcome-back generations, in one run
MaxTokens == 2    \* tokens streamed in one reply
MaxHistory == 11  \* messages of the conversation a run of SpecWindow starts from

-----------------------------------------------------------------------------
(* Text *)
WhiteSpace == {" ", "\n", "\t"}

RECURSIVE TrimStart(_)
TrimStart(s) ==
  IF s = <<>> THEN <<>>
  ELSE IF Head(s) \in WhiteSpace THEN TrimStart(Tail(s)) ELSE s

RECURSIVE TrimEnd(_)
TrimEnd(s) ==
  IF s = <<>> THEN <<>>
  ELSE IF s[Len(s)] \in WhiteSpace THEN TrimEnd(SubSeq(s, 1, Len(s) - 1)) ELSE s

\* String.prototype.trim
Trim(s) == TrimEnd(TrimStart(s))

\* text.replace(/\*/g, '')
RECURSIVE StripStars(_)
StripStars(s) ==
  IF s = <<>> THEN <<>>
  ELSE IF Head(s) = "*" THEN StripStars(Tail(s))
       ELSE <<Head(s)>> \o StripStars(Tail(s))

Str_HelloWorld == <<"H","e","l","l","o"," ","w","o","r","l","d">>
Str_Bye        == <<"B","y","e">>


-----------------------------------------------------------------------------
(***************************************************************************)
(* Audio playback queue: LlamaChat.tsx, handleAudioChunk, playNextChunk    *)
(* and the effect that observes queue depth and playing state.  The effect *)
(* is a step of its own: clips may arrive between a render and its effect. *)
(***************************************************************************)
AUDIO_QUEUE_LIMIT == 10

InitPlay ==
  /\ audioChunkQueue = <<>>
  /\ isAudioPlaying = FALSE
  /\ audioSrc = 0
  /\ clipCount = 0
  /\ evicted = {}
  /\ objectUrls = {}
  /\ unmounted = FALSE

\* a plausible slip: append without dropping the oldest clip
handleAudioChunk_NoEvict(prev, chunk) == Append(prev, chunk)

\* the updater passed to setAudioChunkQueue by handleAudioChunk
handleAudioChunk(prev, chunk) ==
  IF Len(prev) >= AUDIO_QUEUE_LIMIT
    THEN Append(SubSeq(prev, 2, Len(prev)), chunk)
    ELSE Append(prev, chunk)

\* a synthesized clip arrives (handleKokoroMessage, "stream")
HandleAudioChunk ==
  /\ ~unmounted
  /\ clipCount < MaxClips
  /\ clipCount' = clipCount + 1
  /\ audioChunkQueue' = handleAudioChunk(audioChunkQueue, clipCount + 1)
  /\ evicted' = IF Len(audioChunkQueue) >= AUDIO_QUEUE_LIMIT
                  THEN evicted \cup {Head(audioChunkQueue)} ELSE evicted
  /\ UNCHANGED <<isAudioPlaying, audioSrc, objectUrls, unmounted>>

\* a plausible slip: the newest clip of the queue is taken, not the head
PlayNextChunk_Newest ==
  IF Len(audioChunkQueue) = 0 \/ isAudioPlaying
    THEN UNCHANGED playVars
    ELSE /\ audioChunkQueue' = SubSeq(audioChunkQueue, 1, Len(audioChunkQueue) - 1)
         /\ audioSrc' = audioChunkQueue[Len(audioChunkQueue)]
         /\ objectUrls' = objectUrls \cup {audioChunkQueue[Len(audioChunkQueue)]}
         /\ isAudioPlaying' = TRUE
         /\ UNCHANGED <<clipCount, evicted, unmounted>>

\* playNextChunk
PlayNextChunk ==
  IF Len(audioChunkQueue) = 0 \/ isAudioPlaying
    THEN UNCHANGED playVars
    ELSE /\ audioChunkQueue' = SubSeq(audioChunkQueue, 2, Len(audioChunkQueue))
         /\ audioSrc' = audioChunkQueue[1]
         /\ objectUrls' = objectUrls \cup {audioChunkQueue[1]}
         /\ isAudioPlaying' = TRUE
         /\ UNCHANGED <<clipCount, evicted, unmounted>>

\* a plausible slip: the head clip is started whenever the queue is not
\* empty, also while a clip is playing
PlaybackEffect_WhilePlaying ==
  /\ ~unmounted
  /\ Len(audioChunkQueue) > 0
  /\ audioChunkQueue' = SubSeq(audioChunkQueue, 2, Len(audioChunkQueue))
  /\ audioSrc' = audioChunkQueue[1]
  /\ objectUrls' = objectUrls \cup {audioChunkQueue[1]}
  /\ isAudioPlaying' = TRUE
  /\ UNCHANGED <<clipCount, evicted, unmounted>>

\* useEffect on [isAudioPlaying, audioChunkQueue.length, playNextChunk]
PlaybackEffect ==
  /\ ~unmounted
  /\ ~isAudioPlaying /\ Len(audioChunkQueue) > 0
  /\ PlayNextChunk

\* audioRef.current.onended
AudioEnded ==
  /\ ~unmounted
  /\ isAudioPlaying
  /\ isAudioPlaying' = FALSE
  /\ UNCHANGED <<audioChunkQueue, audioSrc, clipCount, evicted, objectUrls, unmounted>>

\* audioRef.current.onerror, and the rejection of play()
AudioError ==
  /\ ~unmounted
  /\ isAudioPlaying
  /\ isAudioPlaying' = FALSE
  /\ UNCHANGED <<audioChunkQueue, audioSrc, clipCount, evicted, objectUrls, unmounted>>

\* currentAudioUrlRef = useRef(null): no statement assigns it a URL, so
\* .current is null (0) whenever the cleanup reads it
currentAudioUrlRef == 0

\* the cleanup returned by the mount effect: the audio element is paused,
\* its handlers are detached and its src is emptied; only the URL held by
\* currentAudioUrlRef is revoked
Unmount ==
  /\ ~unmounted
  /\ unmounted' = TRUE
  /\ audioSrc' = 0
  /\ objectUrls' = IF currentAudioUrlRef # 0
                     THEN objectUrls \ {currentAudioUrlRef} ELSE objectUrls
  /\ UNCHANGED <<audioChunkQueue, isAudioPlaying, clipCount, evicted>>

-----------------------------------------------------------------------------
(***************************************************************************)
(* Synthesis actor: openai-tts-worker.js, and speakText of LlamaChat.tsx.  *)
(* A request is {text, voice, speed}; voice and speed are the constants    *)
(* "alloy" and 1 of LlamaChat.tsx and are left out.  id is a history       *)
(* field: the request's position in the order of arrival.                  *)
(***************************************************************************)
NoRequest == [id |-> 0, text |-> <<>>]

\* the texts speakText is called with
SpeakInputs ==
  { Str_HelloWorld, Str_Bye, <<" ", "*", "B", "y", "e", "*">>, <<"*">>, <<" ">> }

InitTts ==
  /\ ttsIsProcessing = FALSE
  /\ requestQueue = <<>>
  /\ ttsCurrent = NoRequest
  /\ ttsTimers = <<>>
  /\ ttsReceived = <<>>
  /\ ttsStarted = <<>>
  /\ ttsStreamed = <<>>
  /\ ttsRefused = {}
  /\ ttsIsInterrupted = FALSE

TtsState ==
  [proc |-> ttsIsProcessing, queue |-> requestQueue, cur |-> ttsCurrent,
   timers |-> ttsTimers, started |-> ttsStarted, refused |-> ttsRefused,
   intr |-> ttsIsInterrupted]

\* a plausible slip: the finally block does not re-dispatch the queue's head
TtsFinally_NoRedispatch(st) ==
  [st EXCEPT !.proc = FALSE, !.cur = NoRequest]

\* the finally block of the message listener
TtsFinally(st) ==
  LET s1 == [st EXCEPT !.proc = FALSE, !.cur = NoRequest] IN
  IF Len(s1.queue) > 0
    THEN [s1 EXCEPT !.queue = Tail(@), !.timers = Append(@, Head(s1.queue))]
    ELSE s1

\* a plausible slip: the listener does not look at isProcessing
TtsListener_NoBusyGuard(req, st) ==
  IF Trim(req.text) = <<>>
    THEN TtsFinally([st EXCEPT !.proc = TRUE, !.intr = FALSE,
                               !.refused = @ \cup {req.id}])
    ELSE [st EXCEPT !.proc = TRUE, !.intr = FALSE, !.cur = req,
                    !.started = Append(@, req.id)]

\* the message listener, up to the await of textToSpeech, for a speech request
TtsListener(req, st) ==
  IF st.proc
    THEN [st EXCEPT !.queue = Append(@, req)]
    ELSE IF Trim(req.text) = <<>>
      \* throw "No text provided for TTS": catch posts the error, then finally
      THEN TtsFinally([st EXCEPT !.proc = TRUE, !.intr = FALSE,
                                 !.refused = @ \cup {req.id}])
      ELSE [st EXCEPT !.proc = TRUE, !.intr = FALSE, !.cur = req,
                      !.started = Append(@, req.id)]

TtsApply(st) ==
  /\ ttsIsProcessing' = st.proc
  /\ requestQueue' = st.queue
  /\ ttsCurrent' = st.cur
  /\ ttsTimers' = st.timers
  /\ ttsStarted' = st.started
  /\ ttsRefused' = st.refused
  /\ ttsIsInterrupted' = st.intr

\* speakText(text), and the actor's listener run on the message it posts
SpeakText(text) ==
  /\ Len(ttsReceived) < MaxSpeech
  /\ IF text = <<>> \/ Trim(text) = <<>>
       THEN UNCHANGED ttsVars
       ELSE LET req == [id |-> Len(ttsReceived) + 1, text |-> StripStars(Trim(text))] IN
            /\ ttsReceived' = Append(ttsReceived, req.id)
            /\ TtsApply(TtsListener(req, TtsState))
            /\ UNCHANGED ttsStreamed

\* a plausible slip: the blob is posted without a look at isInterrupted
TtsSynthResolved_NoInterruptCheck ==
  /\ ttsCurrent # NoRequest
  /\ ttsStreamed' = Append(ttsStreamed, ttsCurrent.id)
  /\ TtsApply(TtsFinally(TtsState))
  /\ UNCHANGED ttsReceived

\* textToSpeech returned a blob: unless isInterrupted is set, "stream" and
\* "complete" are posted; then finally
TtsSynthResolved ==
  /\ ttsCurrent # NoRequest
  /\ ttsStreamed' = IF ttsIsInterrupted THEN ttsStreamed
                                        ELSE Append(ttsStreamed, ttsCurrent.id)
  /\ TtsApply(TtsFinally(TtsState))
  /\ UNCHANGED ttsReceived

\* textToSpeech threw: "error" is posted, then finally
TtsSynthRejected ==
  /\ ttsCurrent # NoRequest
  /\ TtsApply(TtsFinally(TtsState))
  /\ UNCHANGED <<ttsReceived, ttsStreamed>>

\* the listener on an interrupt message
TtsInterrupt ==
  /\ ttsIsInterrupted' = TRUE
  /\ UNCHANGED <<ttsIsProcessing, requestQueue, ttsCurrent, ttsTimers, ttsReceived,
                 ttsStarted, ttsStreamed, ttsRefused>>

\* the setTimeout(100) callback: dispatchEvent runs the listener on the dequeued request
TtsTimerFire ==
  /\ Len(ttsTimers) > 0
  /\ TtsApply(TtsListener(Head(ttsTimers), [TtsState EXCEPT !.timers = Tail(@)]))
  /\ UNCHANGED <<ttsReceived, ttsStreamed>>

-----------------------------------------------------------------------------
(***************************************************************************)
(* Recorder hook: useOpenAIRecorder.ts, the first definition in the file.  *)
(* rec holds the hook's state values and refs.  A ref that holds a timer   *)
(* id or an object is a boolean: set or not.  The chunk buffer is its      *)
(* length (all chunks have one size, so the hash of the chunk sizes is     *)
(* the length).  A state update, the render it causes and the effects of   *)
(* that render are one step, so isRecordingRef is isRecording.             *)
(* recorder.start() and the onstart handler it causes are one step: no     *)
(* audio arrives between them.                                             *)
(* History fields: session (number of starts), sessionTranscribed (audio   *)
(* captured in this session was transcribed), episodeOpen (a silent window *)
(* was processed while recording with transcribed speech, and no loud      *)
(* window, firing, buffer reset, stop or start came since), silenceFired   *)
(* (onSilenceDetected calls in this session), refreshSession (the session  *)
(* in which the latest refresh was started).                               *)
(***************************************************************************)
MAX_CHUNKS == 50
NoHash == -1

InitRec ==
  rec = [ recorderRef |-> FALSE,               \* recorderRef.current # null (audio context too)
          isRecordingRef |-> FALSE,            \* isRecording / isRecordingRef.current
          recorderState |-> "inactive",        \* MediaRecorder.state
          audioChunksRef |-> 0,                \* audioChunksRef.current.length
          hasHeaderRef |-> FALSE,
          lastProcessedChunksHashRef |-> NoHash,
          isTranscribing |-> FALSE,
          isRefreshingRef |-> FALSE,
          recorderRefreshTimeoutRef |-> FALSE, \* the 30 s refresh timer is pending
          restartTimer |-> FALSE,              \* the 300 ms timer of refreshRecorder is pending
          processingIntervalRef |-> FALSE,     \* the flush interval is running
          silenceStartTimeRef |-> FALSE,       \* silenceStartTimeRef.current # null
          silenceTimerRef |-> FALSE,           \* the silence timer is pending
          hasTranscribedSpeechRef |-> FALSE,
          lastEmittedTranscriptionRef |-> FALSE,
          error |-> FALSE,                     \* error # null
          onstopPending |-> 0,                 \* queued "stop" events of the MediaRecorder
          procs |-> <<>>,                      \* processLatestAudio calls suspended at an await
          session |-> 0,
          refreshSession |-> 0,
          sessionTranscribed |-> FALSE,
          episodeOpen |-> FALSE,
          silenceFired |-> 0 ]

Min(a, b) == IF a < b THEN a ELSE b

Max(a, b) == IF a > b THEN a ELSE b

RemoveAt(s, i) == SubSeq(s, 1, i - 1) \o SubSeq(s, i + 1, Len(s))

\* resetSilenceTimer
resetSilenceTimer(r) == [r EXCEPT !.silenceTimerRef = FALSE]

\* clearRecorderRefresh
clearRecorderRefresh(r) == [r EXCEPT !.recorderRefreshTimeoutRef = FALSE]

\* scheduleRecorderRefresh
scheduleRecorderRefresh(r) ==
  [clearRecorderRefresh(r) EXCEPT !.recorderRefreshTimeoutRef = TRUE]

\* recorderRef.current.start(500) on an inactive recorder, with recorderInstance.onstart
recorderStart(r) ==
  [r EXCEPT !.recorderState = "recording", !.audioChunksRef = 0,
            !.lastProcessedChunksHashRef = NoHash, !.hasHeaderRef = FALSE]

\* recorderRef.current.stop(): the recorder is inactive at once, "stop" is queued
recorderStop(r) ==
  [r EXCEPT !.recorderState = "inactive", !.onstopPending = Min(@ + 1, 2)]

\* useEffect on [isRecording, startPeriodicProcessing, stopPeriodicProcessing]: it runs
\* after every change of isRecording and of isTranscribing
RecordingEffect(r) ==
  IF r.isRecordingRef
    THEN scheduleRecorderRefresh([r EXCEPT !.processingIntervalRef = TRUE])
    ELSE clearRecorderRefresh([r EXCEPT !.processingIntervalRef = FALSE])

\* setIsTranscribing(v), with the render and the effects it causes
setIsTranscribing(r, v) ==
  IF r.isTranscribing = v THEN r ELSE RecordingEffect([r EXCEPT !.isTranscribing = v])

\* a plausible slip: the test of isRefreshingRef is left out of the guard
refreshRecorder_NoGuard(r) ==
  IF ~r.isRecordingRef \/ ~r.recorderRef
    THEN r
    ELSE LET r1 == [r EXCEPT !.isRefreshingRef = TRUE, !.refreshSession = r.session]
             r2 == IF r1.recorderState = "recording" THEN recorderStop(r1) ELSE r1
         IN [r2 EXCEPT !.restartTimer = TRUE]

\* refreshRecorder
refreshRecorder(r) ==
  IF ~r.isRecordingRef \/ ~r.recorderRef \/ r.isRefreshingRef
    THEN r
    ELSE LET r1 == [r EXCEPT !.isRefreshingRef = TRUE, !.refreshSession = r.session]
             r2 == IF r1.recorderState = "recording" THEN recorderStop(r1) ELSE r1
         IN [r2 EXCEPT !.restartTimer = TRUE]

\* a plausible slip: the guard does not test isRecordingRef
stopRecordingInternal_NoIdleGuard(r) ==
  IF ~r.recorderRef
    THEN r
    ELSE LET r1 == [resetSilenceTimer(clearRecorderRefresh(r))
                      EXCEPT !.hasTranscribedSpeechRef = FALSE]
             r2 == IF r1.recorderState = "recording" THEN recorderStop(r1) ELSE r1
         IN RecordingEffect([r2 EXCEPT !.isRecordingRef = FALSE, !.episodeOpen = FALSE])

\* stopRecordingInternal
stopRecordingInternal(r) ==
  IF ~r.recorderRef \/ ~r.isRecordingRef
    THEN r
    ELSE LET r1 == [resetSilenceTimer(clearRecorderRefresh(r))
                      EXCEPT !.hasTranscribedSpeechRef = FALSE]
             r2 == IF r1.recorderState = "recording" THEN recorderStop(r1) ELSE r1
         IN RecordingEffect([r2 EXCEPT !.isRecordingRef = FALSE, !.episodeOpen = FALSE])

\* startRecordingInternal
startRecordingInternal(r) ==
  IF ~r.recorderRef \/ r.isRecordingRef
    THEN r
    ELSE LET r1 == [resetSilenceTimer([r EXCEPT !.audioChunksRef = 0, !.hasHeaderRef = FALSE])
                      EXCEPT !.hasTranscribedSpeechRef = FALSE]
         IN IF r1.recorderState = "inactive"
              THEN RecordingEffect(
                     [recorderStart(r1) EXCEPT !.isRecordingRef = TRUE,
                        !.session = @ + 1, !.sessionTranscribed = FALSE,
                        !.episodeOpen = FALSE, !.silenceFired = 0])
              \* start() throws on a recorder that is not inactive
              ELSE RecordingEffect([r1 EXCEPT !.error = TRUE, !.isRecordingRef = FALSE])

\* the buffer is dropped and the recorder refreshed (blob too small, decode failed)
dropBufferAndRefresh(r) ==
  LET r1 == resetSilenceTimer([r EXCEPT !.audioChunksRef = 0, !.hasHeaderRef = FALSE,
                                        !.episodeOpen = FALSE])
  IN IF r1.isRecordingRef THEN refreshRecorder(r1) ELSE r1

\* processLatestAudio up to its first await.  closureTranscribing is the value of
\* isTranscribing in the closure that runs; small: the blob is under 512 bytes
processLatestAudio(r, closureTranscribing, small) ==
  IF ~r.recorderRef \/ closureTranscribing \/ r.isRefreshingRef THEN r
  ELSE IF r.audioChunksRef = 0 THEN r
  ELSE IF r.audioChunksRef = r.lastProcessedChunksHashRef THEN r
  ELSE LET r1 == [r EXCEPT !.lastProcessedChunksHashRef = r.audioChunksRef] IN
       IF small
         THEN dropBufferAndRefresh(r1)
         ELSE [setIsTranscribing(r1, TRUE) EXCEPT
                 !.procs = Append(@, [stage |-> "decode", session |-> r.session])]

\* checkAndProcessAudio, the flush tick
checkAndProcessAudio(r, small) ==
  IF r.audioChunksRef * 10 > MAX_CHUNKS * 8 /\ r.isRecordingRef /\ ~r.isRefreshingRef
    THEN refreshRecorder(r)
    ELSE IF r.isRecordingRef /\ ~r.isTranscribing /\ ~r.isRefreshingRef
            /\ r.hasHeaderRef /\ r.audioChunksRef > 0
      THEN processLatestAudio(r, r.isTranscribing, small)
      ELSE r

\* a transcription returned text: the hook records it and emits it unless debounced
transcribed(r, p) ==
  [r EXCEPT !.hasTranscribedSpeechRef = TRUE,
            !.lastEmittedTranscriptionRef = TRUE,
            !.sessionTranscribed = @ \/ (p.session = r.session)]

\* the silent branch of processLatestAudio (rms < SILENCE_THRESHOLD)
silentWindow(r) ==
  LET r1 == IF r.isRecordingRef /\ ~r.silenceStartTimeRef /\ r.hasTranscribedSpeechRef
              THEN [r EXCEPT !.silenceStartTimeRef = TRUE, !.silenceTimerRef = TRUE]
              ELSE r
      r2 == [r1 EXCEPT !.episodeOpen = @ \/ (r.isRecordingRef /\ r.hasTranscribedSpeechRef)]
  IN setIsTranscribing(r2, FALSE)

\* the silence timer's callback.  The timer runs SILENCE_DURATION_MS after
\* silenceStartTimeRef was set, so the measured duration is at least that
silenceTimerCallback(r) ==
  IF r.silenceStartTimeRef /\ r.isRecordingRef
    THEN LET r1 == [r EXCEPT !.audioChunksRef = 0, !.hasHeaderRef = FALSE]
             r2 == IF r1.isRecordingRef THEN refreshRecorder(r1) ELSE r1
             r3 == [r2 EXCEPT !.silenceFired = @ + 1, !.episodeOpen = FALSE]
         IN [resetSilenceTimer(r3) EXCEPT !.hasTranscribedSpeechRef = FALSE]
    ELSE resetSilenceTimer(r)

\* ---- actions ----

\* getUserMedia resolved: the recorder and the audio context exist
MicInit ==
  /\ ~rec.recorderRef
  /\ rec' = [rec EXCEPT !.recorderRef = TRUE]

\* the mic button while not recording (enabled when there is no recorder error)
StartRecording ==
  /\ ~rec.isRecordingRef /\ ~rec.error
  /\ rec.session < MaxSessions
  /\ rec' = startRecordingInternal(rec)

\* the mic button while recording
StopRecording ==
  /\ rec.isRecordingRef /\ ~rec.error
  /\ rec' = stopRecordingInternal(rec)

\* recorderInstance.ondataavailable with a non-empty chunk
DataAvailable ==
  /\ rec.recorderState = "recording"
  /\ rec.audioChunksRef < MaxBuffered
  /\ rec' = [rec EXCEPT !.audioChunksRef = @ + 1,
                        !.hasHeaderRef = @ \/ (rec.audioChunksRef = 0)]

\* recorderInstance.onstop, after the last dataavailable of the stopped recorder
\* (final: it carried data).  The handler's closure is the one of the first
\* render: its isTranscribing is false
OnStop ==
  /\ rec.onstopPending > 0
  /\ Len(rec.procs) < MaxProcs
  /\ \E final \in BOOLEAN, small \in BOOLEAN :
       /\ final => rec.audioChunksRef < MaxBuffered
       /\ LET r1 == [rec EXCEPT !.onstopPending = @ - 1,
                        !.audioChunksRef = IF final THEN @ + 1 ELSE @,
                        !.hasHeaderRef = @ \/ (final /\ rec.audioChunksRef = 0)]
          IN rec' = IF ~r1.isRefreshingRef /\ r1.audioChunksRef > 0
                      THEN processLatestAudio(r1, FALSE, small)
                      ELSE r1

\* the flush interval fires
FlushTick ==
  /\ rec.processingIntervalRef
  /\ Len(rec.procs) < MaxProcs
  /\ \E small \in BOOLEAN : rec' = checkAndProcessAudio(rec, small)

\* convertBlobToAudio returned: null, or samples whose trailing window is silent or loud
DecodeDone(i, result) ==
  /\ i \in 1..Len(rec.procs)
  /\ rec.procs[i].stage = "decode"
  /\ rec' =
       CASE result = "null" ->
              [rec EXCEPT !.procs[i].stage = "fallback"]
         [] result = "silent" ->
              silentWindow([rec EXCEPT !.procs = RemoveAt(@, i)])
         [] result = "loud" ->
              [resetSilenceTimer(rec) EXCEPT !.procs[i].stage = "transcribe",
                                            !.episodeOpen = FALSE]

\* transcribeAudioEnhanced returned text, returned nothing, or threw
TranscribeDone(i, outcome) ==
  /\ i \in 1..Len(rec.procs)
  /\ rec.procs[i].stage \in {"transcribe", "fallback"}
  /\ LET p  == rec.procs[i]
         r0 == [rec EXCEPT !.procs = RemoveAt(@, i)]
         r1 == CASE outcome = "text" -> transcribed(r0, p)
                 [] outcome = "empty" -> r0
                 [] outcome = "throw" ->
                      IF p.stage = "transcribe" THEN [r0 EXCEPT !.error = TRUE] ELSE r0
         r2 == setIsTranscribing(r1, FALSE)
     IN rec' = IF p.stage = "fallback" THEN dropBufferAndRefresh(r2) ELSE r2

\* the silence timer fires
SilenceTimerFire ==
  /\ rec.silenceTimerRef
  /\ rec' = silenceTimerCallback(rec)

\* the 30 s refresh timer fires
RefreshTimerFire ==
  /\ rec.recorderRefreshTimeoutRef
  /\ rec' = refreshRecorder([rec EXCEPT !.recorderRefreshTimeoutRef = FALSE])

\* a plausible slip: the restart does not schedule the next refresh
RefreshRestart_NoSchedule ==
  /\ rec.restartTimer
  /\ rec.onstopPending = 0
  /\ LET r1 == [rec EXCEPT !.restartTimer = FALSE]
         r2 == IF r1.isRecordingRef /\ r1.recorderRef /\ r1.recorderState = "inactive"
                 THEN recorderStart(r1)
                 ELSE r1
     IN rec' = [r2 EXCEPT !.isRefreshingRef = FALSE]

\* the 300 ms timer of refreshRecorder fires; the "stop" event queued by the
\* stop() that preceded the timer is delivered before it
RefreshRestart ==
  /\ rec.restartTimer
  /\ rec.onstopPending = 0
  /\ LET r1 == [rec EXCEPT !.restartTimer = FALSE]
         r2 == IF r1.isRecordingRef /\ r1.recorderRef /\ r1.recorderState = "inactive"
                 THEN scheduleRecorderRefresh(recorderStart(r1))
                 ELSE r1
     IN rec' = [r2 EXCEPT !.isRefreshingRef = FALSE]


-----------------------------------------------------------------------------
(***************************************************************************)
(* Turn dispatcher and streaming consumer (LlamaChat.tsx) and generation   *)
(* actor (openai-worker.js, streamChat of lib/openai.ts).                  *)
(* postMessage to the actor and the actor's listener run as one step; the  *)
(* events the actor posts wait in gen.outbox until the main thread handles *)
(* them, in order.  isProcessingRef follows isProcessing (the effect of    *)
(* line 72 runs with the render).                                          *)
(* gen.script is the reply the service streams, token by token (an input). *)
(* History: genPosted (number of generate requests posted), openTurns      *)
(* (the requests posted whose complete or error event has not been         *)
(* handled), toastError (an error toast was shown), turns (per request     *)
(* posted, the user text it carries and how it has ended), streaming (a    *)
(* start event was handled and no complete or error event since), received *)
(* (the tokens handled since the last start event, concatenated), spoken   *)
(* (the speech requests posted since the last start event), prevSubmit     *)
(* (trimmed text of the latest submit call that carried text, emptied at a *)
(* recording start), submits (submit calls that carried text, and          *)
(* welcome-back generations), and in each pending dispatch the             *)
(* history and the context it was composed from.                           *)
(***************************************************************************)
\* a value that is no text: undefined
Absent == <<"undefined">>

Str_Favorite == <<"M","y"," ","f","a","v","o","r","i","t","e"," ","c","o","l","o","r"," ","i","s"," ","b","l","u","e">>
Str_Ok       == <<"o","k">>
Str_TwoWords == <<"f","a","v","o","r","i","t","e"," ","c","o","l","o","r">>
Str_Think    == <<"I"," ","t","h","i","n","k"," ","t","h","i","s"," ","i","s"," ","f","i","n","e">>
Str_Trip     ==
  <<"I"," ","w","a","n","t"," ","t","o"," ","t","e","l","l"," ","y","o","u"," ","a","b","o","u","t"," ","m","y"," ","t","r","i">>
    \o <<"p"," ","t","o"," ","t","h","e"," ","o","l","d"," ","t","o","w","n"," ","n","e","a","r"," ","t","h","e"," ","s","e","a">>
Str_OkPadded == <<" ","o","k"," ">>
Str_Context  == <<"c","t","x">>
Tok_HiThere  == <<"H","i"," ","t","h","e","r","e","."," ">>
Tok_HowAreYou  == <<"H","o","w"," ","a","r","e"," ","y","o","u","?">>
Str_HiThere  == <<"H","i"," ","t","h","e","r","e",".">>
Str_Error    == <<"e","r","r">>
Str_Fallback == <<"w","e","l","c","o","m","e"," ","b","a","c","k">>
Str_Greeting == <<"W","e","l","c","o","m","e","!">>

DENIAL_PHRASES_FOR_STORAGE ==
  { <<"d","o","n","'","t"," ","h","a","v","e"," ","p","e","r","s","o","n","a","l"," ","m","e","m","o","r","i","e","s">>,
    <<"d","o","n","'","t"," ","r","e","t","a","i","n"," ","i","n","f","o","r","m","a","t","i","o","n">>,
    <<"s","t","a","r","t"," ","f","r","o","m"," ","a"," ","b","l","a","n","k"," ","s","l","a","t","e">>,
    <<"c","a","n","n","o","t"," ","r","e","c","a","l","l"," ","p","a","s","t"," ","c","o","n","v","e","r","s","a","t","i","o","n","s">>,
    <<"d","o","n","'","t"," ","h","a","v","e"," ","m","e","m","o","r","y">>,
    <<"i"," ","c","a","n","n","o","t"," ","r","e","c","a","l","l">>,
    <<"i"," ","d","o","n","'","t"," ","r","e","c","a","l","l">>,
    <<"i"," ","a","m"," ","u","n","a","b","l","e"," ","t","o"," ","r","e","c","a","l","l">>,
    <<"i"," ","d","o","n","'","t"," ","h","a","v","e"," ","i","n","f","o","r","m","a","t","i","o","n"," ","a","b","o","u","t"," ","y","o","u">>,
    <<"i"," ","d","o","n","'","t"," ","k","n","o","w"," ","y","o","u","r"," ","n","a","m","e">> }

SLIDING_WINDOW_SIZE == 10
SHORT_INPUT_WORD_THRESHOLD == 15
MIN_DIRECT_STORE_WORD_COUNT == 2

UpperCase == <<"A","B","C","D","E","F","G","H","I","J","K","L","M","N","O","P","Q","R","S","T","U","V","W","X","Y","Z">>
LowerCase == <<"a","b","c","d","e","f","g","h","i","j","k","l","m","n","o","p","q","r","s","t","u","v","w","x","y","z">>

\* String.prototype.toLowerCase on the letters A-Z
ToLowerCase(s) ==
  [i \in 1..Len(s) |->
     IF \E k \in 1..Len(UpperCase) : UpperCase[k] = s[i]
       THEN LowerCase[CHOOSE k \in 1..Len(UpperCase) : UpperCase[k] = s[i]]
       ELSE s[i]]

\* String.prototype.includes
Includes(s, sub) ==
  \E k \in 0..(Len(s) - Len(sub)) : \A j \in 1..Len(sub) : s[k + j] = sub[j]

\* s.split(/\s+/).filter(Boolean).length
WordCount(s) ==
  Cardinality({i \in 1..Len(s) :
                 s[i] \notin WhiteSpace /\ (i = 1 \/ s[i - 1] \in WhiteSpace)})

\* /[.!?]\s+/.test(content)
sentenceEndRegex(content) ==
  \E i \in 1..(Len(content) - 1) :
     content[i] \in {".", "!", "?"} /\ content[i + 1] \in WhiteSpace

Message(role, content) == [role |-> role, content |-> content]

\* an event posted by the generation actor; req names the request that
\* caused it (history)
Ev(status, field, value, req) ==
  [status |-> status, req |-> req,
   output   |-> IF field = "output" THEN value ELSE Absent,
   sentence |-> IF field = "sentence" THEN value ELSE Absent,
   data     |-> IF field = "data" THEN value ELSE Absent,
   summary  |-> IF field = "summary" THEN value ELSE Absent]

NoJob == [type |-> "none", req |-> 0, fullResponse |-> <<>>,
          currentSentenceBuffer |-> <<>>, chunks |-> 0]

\* the reply every stream carries, token by token
ReplyTokens == <<Tok_HiThere, Tok_HowAreYou>>
\* a reply whose first token ends a sentence of more than 10 characters
Tok_HowAreYouThen == Tok_HowAreYou \o <<" ">>
ReplySentences == <<Tok_HowAreYouThen, Str_HiThere>>
ReplyScripts == {ReplyTokens, ReplySentences}
UserTexts == {Str_Ok, Str_OkPadded, Str_Favorite}
\* inputs on every side of the memory policy's thresholds
MemoryTexts == {Str_Ok, Str_Favorite, Str_TwoWords, Str_Think, Str_Trip}
Contexts == {<<>>, Str_Context}

InitChat ==
  [messages |-> <<>>, isProcessing |-> FALSE, isProcessingRef |-> FALSE,
   lastSubmittedTextRef |-> <<>>, latestUserSubmitRef |-> <<>>,
   latestResponseRef |-> <<>>, currentSentenceBufferRef |-> <<>>,
   llamaStatus |-> "loading", status |-> "loading", inputReady |-> FALSE,
   recording |-> "never", llamaWorker |-> TRUE, toastError |-> FALSE,
   contextPending |-> <<>>, dispatchTimers |-> <<>>, resetTimers |-> 0,
   memory |-> {},
   genPosted |-> 0, openTurns |-> {}, turns |-> <<>>, spoken |-> <<>>, prevSubmit |-> <<>>,
   streaming |-> FALSE, received |-> <<>>,
   submits |-> 0]

\* openai-worker.js 3-16: the actor posts ready, or error when the service
\* cannot be constructed
InitTurn ==
  /\ chat = InitChat
  /\ gen \in {[isProcessing |-> FALSE, isInterrupted |-> FALSE, job |-> NoJob,
               outbox |-> <<e>>, script |-> ReplyTokens] :
                e \in {Ev("ready", "none", Absent, 0),
                       Ev("error", "data", Str_Error, 0)}}

\* a conversation of n messages, a user message first
HistoryMsg(i) ==
  Message(IF i % 2 = 1 THEN "user" ELSE "assistant", <<"m", LowerCase[i]>>)

History(n) == [i \in 1..n |-> HistoryMsg(i)]

\* the state between two Turns of a conversation of n messages: the
\* application is ready, the microphone is on, every timer has fired; one
\* more submit call is left to the run
InitWindow ==
  /\ \E n \in 0..MaxHistory :
       chat = [InitChat EXCEPT !.messages = History(n),
                               !.llamaStatus = "ready", !.status = "ready",
                               !.inputReady = TRUE, !.recording = "on",
                               !.submits = MaxSubmits - 1]
  /\ \E script \in ReplyScripts :
       gen = [isProcessing |-> FALSE, isInterrupted |-> FALSE, job |-> NoJob,
              outbox |-> <<>>, script |-> script]

\* the same, with the reference to the generation actor either set or null
InitDetached ==
  /\ \E n \in 0..MaxHistory, worker \in BOOLEAN :
       chat = [InitChat EXCEPT !.messages = History(n),
                               !.llamaStatus = "ready", !.status = "ready",
                               !.inputReady = TRUE, !.recording = "on",
                               !.llamaWorker = worker,
                               !.submits = MaxSubmits - 1]
  /\ gen = [isProcessing |-> FALSE, isInterrupted |-> FALSE, job |-> NoJob,
            outbox |-> <<>>, script |-> ReplyTokens]

\* ---- main thread -------------------------------------------------------

updateMessages(msgs, text) ==
  IF Len(msgs) > 0 /\ msgs[Len(msgs)].role = "assistant"
    THEN [msgs EXCEPT ![Len(msgs)] = Message("assistant", text)]
    ELSE msgs

resetProcessing(c) ==
  [c EXCEPT !.isProcessing = FALSE, !.isProcessingRef = FALSE]

\* what speakText posts to the synthesis actor: nothing, or one text
speakTextPosts(text) ==
  IF text = <<>> \/ Trim(text) = <<>> THEN <<>> ELSE <<StripStars(Trim(text))>>

speak(c, text) == [c EXCEPT !.spoken = @ \o speakTextPosts(text)]

isBlank(text) == text = Absent \/ text = <<>> \/ Trim(text) = <<>>

\* a plausible slip: the guard on the last submitted text is missing
isDuplicateSubmission_Never(last, text) == FALSE

\* handleSubmit 221: the duplicate-submission guard
isDuplicateSubmission(last, text) == last = Trim(text)

handleSubmit(c, text) ==
  LET c1 == resetProcessing(c) IN
  IF isBlank(text) THEN c1
  ELSE IF isDuplicateSubmission(c1.lastSubmittedTextRef, text)
    THEN [c1 EXCEPT !.prevSubmit = Trim(text), !.submits = @ + 1]
  ELSE [c1 EXCEPT !.lastSubmittedTextRef = Trim(text),
                  !.isProcessing = TRUE, !.isProcessingRef = TRUE,
                  !.latestUserSubmitRef = Trim(text),
                  !.contextPending = Append(@, [kind |-> "submit", text |-> Trim(text)]),
                  !.prevSubmit = Trim(text),
                  !.submits = @ + 1]

handleTranscriptionUpdate(c, text) ==
  IF ~isBlank(text) /\ ~c.isProcessingRef THEN handleSubmit(c, text) ELSE c

handleSilenceSubmit(c) == handleSubmit(c, Absent)

\* a plausible slip: the window is cut before the user message is appended
messagesForWorker_SliceBeforeAppend(history, userMessage, contextForLlama) ==
  LET n == Len(history)
      window == Append(SubSeq(history, Max(1, n - SLIDING_WINDOW_SIZE + 1), n), userMessage)
  IN IF contextForLlama # <<>>
       THEN <<Message("system", contextForLlama)>> \o window
       ELSE window

\* handleSubmit 252-260: fullHistory.slice(-SLIDING_WINDOW_SIZE), then unshift
messagesForWorker(history, userMessage, contextForLlama) ==
  LET fullHistory == Append(history, userMessage)
      n == Len(fullHistory)
      window == SubSeq(fullHistory, Max(1, n - SLIDING_WINDOW_SIZE + 1), n)
  IN IF contextForLlama # <<>>
       THEN <<Message("system", contextForLlama)>> \o window
       ELSE window

\* handleSubmit 244-262, after buildContextMemo has resolved
prepareMessages(c, p, ctx) ==
  LET userMessage == Message("user", p.text)
      currentMessagesForDisplay == Append(c.messages, userMessage)
  IN [c EXCEPT
        !.messages = Append(currentMessagesForDisplay, Message("assistant", <<>>)),
        !.dispatchTimers = Append(@,
           [kind |-> "submit", text |-> p.text,
            messages |-> messagesForWorker(c.messages, userMessage, ctx),
            currentMessagesForDisplay |-> currentMessagesForDisplay,
            history |-> c.messages, context |-> ctx])]

\* generateWelcomeBackMessage 164-187, after buildContextMemo has resolved
prepareWelcome(c, p, ctx) ==
  LET systemPrompt == IF ctx = <<>> THEN Str_Fallback ELSE ctx IN
  [c EXCEPT
     !.isProcessing = TRUE, !.isProcessingRef = TRUE,
     !.messages = <<Message("assistant", <<>>)>>,
     !.dispatchTimers = Append(@,
        [kind |-> "welcome", text |-> p.text,
         messages |-> <<Message("system", systemPrompt)>>,
         currentMessagesForDisplay |-> <<>>,
         history |-> <<>>, context |-> ctx])]

\* ---- generation actor ---------------------------------------------------

post(g, e) == [g EXCEPT !.outbox = Append(@, e)]

\* the message listener up to its first await
genListener(g, type, req) ==
  IF g.isProcessing
    THEN post(g, Ev("error", "data", Str_Error, req))
    ELSE post([g EXCEPT !.isProcessing = TRUE, !.isInterrupted = FALSE,
                        !.job = [NoJob EXCEPT !.type = type, !.req = req]],
              Ev(IF type = "generate" THEN "start" ELSE "summarization_start",
                 "none", Absent, req))

\* the listener's finally
genFinally(g) == [g EXCEPT !.isProcessing = FALSE, !.job = NoJob]

\* a plausible slip: the callback posts without a look at isInterrupted
onChunk_NoInterruptCheck(g, content) ==
  LET j  == g.job
      g1 == [g EXCEPT !.job.fullResponse = @ \o content,
                      !.job.chunks = @ + 1]
  IN IF j.type = "summarize" THEN g1
     ELSE
       LET buffer == j.currentSentenceBuffer \o content
           g2 == post([g1 EXCEPT !.job.currentSentenceBuffer = buffer],
                      Ev("update", "output", content, j.req))
       IN IF sentenceEndRegex(content)
            THEN LET sentenceToSpeak == Trim(buffer)
                     g3 == IF Len(sentenceToSpeak) > 10
                             THEN post(g2, Ev("sentence_ready", "sentence",
                                              sentenceToSpeak, j.req))
                             ELSE g2
                 IN [g3 EXCEPT !.job.currentSentenceBuffer = <<>>]
            ELSE g2

\* streamChat 84-87 and the onChunk callbacks; streamChat accumulates the
\* reply whether or not the callback returns at isInterrupted
onChunk(g, content) ==
  LET j  == g.job
      g1 == [g EXCEPT !.job.fullResponse = @ \o content,
                      !.job.chunks = @ + 1]
  IN IF j.type = "summarize" \/ g.isInterrupted THEN g1
     ELSE
       LET buffer == j.currentSentenceBuffer \o content
           g2 == post([g1 EXCEPT !.job.currentSentenceBuffer = buffer],
                      Ev("update", "output", content, j.req))
       IN IF sentenceEndRegex(content)
            THEN LET sentenceToSpeak == Trim(buffer)
                     g3 == IF Len(sentenceToSpeak) > 10
                             THEN post(g2, Ev("sentence_ready", "sentence",
                                              sentenceToSpeak, j.req))
                             ELSE g2
                 IN [g3 EXCEPT !.job.currentSentenceBuffer = <<>>]
            ELSE g2

\* streamChat 76-78 and the onComplete callbacks
onComplete(g) ==
  LET j == g.job IN
  IF g.isInterrupted THEN g
  ELSE IF j.type = "summarize"
    THEN post(g, Ev("summary_complete", "summary", j.fullResponse, j.req))
    ELSE
      LET g1 == IF Trim(j.currentSentenceBuffer) # <<>>
                  THEN post(g, Ev("sentence_ready", "sentence",
                                  Trim(j.currentSentenceBuffer), j.req))
                  ELSE g
      IN post(g1, Ev("complete", "output", j.fullResponse, j.req))

\* streamChat 94-96 and the onError callbacks
onError(g) ==
  post(g, Ev(IF g.job.type = "summarize" THEN "summary_error" ELSE "error",
             "data", Str_Error, g.job.req))

\* a plausible slip: the minimum word count is exclusive ("more than 2 words")
memoryAction_ExclusiveMin(userInput, finalText) ==
  LET lowerCaseFinalText == ToLowerCase(finalText)
      shouldSaveMemory ==
        \A phrase \in DENIAL_PHRASES_FOR_STORAGE : ~Includes(lowerCaseFinalText, phrase)
      wordCount == WordCount(userInput)
      isMeaningful ==
        /\ wordCount > MIN_DIRECT_STORE_WORD_COUNT
        /\ ~Includes(ToLowerCase(userInput), <<"h","e","l","l","o">>)
        /\ ~Includes(ToLowerCase(userInput), <<"h","i">>)
        /\ ~Includes(ToLowerCase(userInput), <<"h","e","y">>)
        /\ Len(userInput) > 10
  IN IF userInput # <<>> /\ Trim(userInput) # <<>> /\ shouldSaveMemory
       THEN IF isMeaningful /\ wordCount < SHORT_INPUT_WORD_THRESHOLD THEN "store"
            ELSE IF wordCount >= SHORT_INPUT_WORD_THRESHOLD /\ isMeaningful
              THEN "summarize"
            ELSE "skip"
       ELSE "skip"

\* the memory policy of the complete handler, 376-429
memoryAction(userInput, finalText) ==
  LET lowerCaseFinalText == ToLowerCase(finalText)
      shouldSaveMemory ==
        \A phrase \in DENIAL_PHRASES_FOR_STORAGE : ~Includes(lowerCaseFinalText, phrase)
      wordCount == WordCount(userInput)
      isMeaningful ==
        /\ wordCount >= MIN_DIRECT_STORE_WORD_COUNT
        /\ ~Includes(ToLowerCase(userInput), <<"h","e","l","l","o">>)
        /\ ~Includes(ToLowerCase(userInput), <<"h","i">>)
        /\ ~Includes(ToLowerCase(userInput), <<"h","e","y">>)
        /\ Len(userInput) > 10
  IN IF userInput # <<>> /\ Trim(userInput) # <<>> /\ shouldSaveMemory
       THEN IF isMeaningful /\ wordCount < SHORT_INPUT_WORD_THRESHOLD THEN "store"
            ELSE IF wordCount >= SHORT_INPUT_WORD_THRESHOLD /\ isMeaningful
              THEN "summarize"
            ELSE "skip"
       ELSE "skip"

\* history: the turn of request req has ended with the given event
endTurn(turns, req, end) ==
  IF req \in 1..Len(turns) THEN [turns EXCEPT ![req].end = end] ELSE turns

finalTextOf(c, e) ==
  IF e.output # Absent /\ e.output # <<>> THEN e.output ELSE c.latestResponseRef

onLlamaReady(c) == [c EXCEPT !.llamaStatus = "ready"]

\* the error case, and the status effect 545-572 that follows the render
onLlamaError(c, e) ==
  [c EXCEPT !.llamaStatus = "error", !.status = "error",
            !.currentSentenceBufferRef = <<>>,
            !.openTurns = @ \ {e.req},
            !.turns = endTurn(@, e.req, "error"),
            !.streaming = FALSE]

onLlamaStart(c) ==
  LET n == Len(c.messages) IN
  [c EXCEPT !.latestResponseRef = <<>>,
            !.currentSentenceBufferRef = <<>>,
            !.messages = IF n > 0 /\ @[n].role = "assistant" /\ @[n].content = <<>>
                           THEN @ ELSE Append(@, Message("assistant", <<>>)),
            !.spoken = <<>>, !.streaming = TRUE, !.received = <<>>]

onLlamaUpdate(c, e) ==
  IF e.output # Absent
    THEN [c EXCEPT !.currentSentenceBufferRef = @ \o e.output,
                   !.latestResponseRef = @ \o e.output,
                   !.messages = updateMessages(@, c.latestResponseRef \o e.output),
                   !.received = @ \o e.output]
    ELSE c

\* a plausible slip: the handler speaks the event's sentence field as well as
\* leaving the sentence in the buffer that the complete handler flushes
onLlamaSentenceReady_ReadsSentence(c, e) ==
  IF e.sentence # Absent /\ Trim(e.sentence) # <<>>
    THEN speak(c, Trim(e.sentence))
    ELSE c

onLlamaSentenceReady(c, e) ==
  IF e.output # Absent /\ Trim(e.output) # <<>>
    THEN speak(c, Trim(e.output))
    ELSE c

\* a plausible slip: the remaining sentence buffer is dropped, not spoken
onLlamaComplete_NoFlush(c, e) ==
  LET finalText == finalTextOf(c, e)
      userInput == c.latestUserSubmitRef
      remainingBuffer == Trim(c.currentSentenceBufferRef)
      c1 == [c EXCEPT !.isProcessing = FALSE, !.isProcessingRef = FALSE,
                      !.messages = updateMessages(@, finalText),
                      !.currentSentenceBufferRef = <<>>,
                      !.resetTimers = @ + 1,
                      !.openTurns = @ \ {e.req},
                      !.turns = endTurn(@, e.req, "complete"),
                      !.streaming = FALSE,
                      !.memory = IF memoryAction(userInput, finalText) = "store"
                                   THEN @ \cup {userInput} ELSE @]
  IN c1

onLlamaComplete(c, e) ==
  LET finalText == finalTextOf(c, e)
      userInput == c.latestUserSubmitRef
      remainingBuffer == Trim(c.currentSentenceBufferRef)
      c1 == [c EXCEPT !.isProcessing = FALSE, !.isProcessingRef = FALSE,
                      !.messages = updateMessages(@, finalText),
                      !.currentSentenceBufferRef = <<>>,
                      !.resetTimers = @ + 1,
                      !.openTurns = @ \ {e.req},
                      !.turns = endTurn(@, e.req, "complete"),
                      !.streaming = FALSE,
                      !.memory = IF memoryAction(userInput, finalText) = "store"
                                   THEN @ \cup {userInput} ELSE @]
  IN IF remainingBuffer # <<>> THEN speak(c1, remainingBuffer) ELSE c1

onSummaryComplete(c, e) ==
  IF e.summary # Absent /\ e.summary # <<>> /\ Trim(e.summary) # <<>>
    THEN [c EXCEPT !.memory = @ \cup {Trim(e.summary)}]
    ELSE c

handleLlamaMessage(c, e) ==
  CASE e.status = "ready" -> onLlamaReady(c)
    [] e.status = "error" -> onLlamaError(c, e)
    [] e.status = "start" -> onLlamaStart(c)
    [] e.status = "update" -> onLlamaUpdate(c, e)
    [] e.status = "sentence_ready" -> onLlamaSentenceReady(c, e)
    [] e.status = "complete" -> onLlamaComplete(c, e)
    [] e.status = "summary_complete" -> onSummaryComplete(c, e)
    [] OTHER -> c

\* render 676-733: the microphone button is part of the tree only while
\* status is "ready" (the transcription service is ready and the recorder
\* reports no error in this part of the model)
micButton(c) == c.status = "ready"

\* ---- steps --------------------------------------------------------------

HandleLlamaMessage ==
  /\ gen.outbox # <<>>
  /\ LET e == Head(gen.outbox)
         g == [gen EXCEPT !.outbox = Tail(@)]
     IN /\ chat' = handleLlamaMessage(chat, e)
        /\ gen' = IF /\ e.status = "complete"
                     /\ memoryAction(chat.latestUserSubmitRef, finalTextOf(chat, e)) = "summarize"
                    THEN genListener(g, "summarize", 0)
                    ELSE g

\* readyTimer1 of the status effect; the synthesis actor and the
\* transcription service are ready by then
ReadyTimer1 ==
  /\ chat.llamaStatus = "ready" /\ chat.status = "loading"
  /\ chat' = [chat EXCEPT !.status = "ready"]
  /\ UNCHANGED gen

\* readyTimer3 and the greeting effect 574-590
InputReadyEffect(visitedFlag) ==
  /\ chat.status = "ready" /\ ~chat.inputReady
  /\ LET c == [chat EXCEPT !.inputReady = TRUE] IN
     chat' = IF Len(c.messages) = 0 /\ ~c.isProcessingRef
               THEN IF ~visitedFlag
                      THEN speak([c EXCEPT !.messages = <<Message("assistant", Str_Greeting)>>],
                                 Str_Greeting)
                      ELSE [resetProcessing(c) EXCEPT
                              !.contextPending = Append(@, [kind |-> "welcome", text |-> <<>>]),
                              !.submits = @ + 1]
               ELSE c
  /\ UNCHANGED gen

\* the microphone button, 722-730; it is rendered while status is ready, and
\* the input container shows once inputReady is set
MicStart ==
  /\ chat.status = "ready" /\ chat.inputReady /\ chat.recording # "on"
  /\ chat' = [chat EXCEPT !.lastSubmittedTextRef = <<>>,
                          !.recording = "on",
                          !.prevSubmit = <<>>]
  /\ UNCHANGED gen

MicStop ==
  /\ chat.status = "ready" /\ chat.recording = "on"
  /\ chat' = [chat EXCEPT !.recording = "off"]
  /\ UNCHANGED gen

TranscriptionUpdate(text) ==
  /\ chat.recording # "never"
  /\ chat.submits < MaxSubmits
  /\ chat' = handleTranscriptionUpdate(chat, text)
  /\ UNCHANGED gen

SilenceSubmit ==
  /\ chat.recording = "on"
  /\ chat' = handleSilenceSubmit(chat)
  /\ UNCHANGED gen

\* buildContextMemo resolves
ContextBuilt(i, ctx) ==
  /\ i \in 1..Len(chat.contextPending)
  /\ LET p == chat.contextPending[i]
         c == [chat EXCEPT !.contextPending = RemoveAt(@, i)]
     IN chat' = IF p.kind = "submit" THEN prepareMessages(c, p, ctx)
                                     ELSE prepareWelcome(c, p, ctx)
  /\ UNCHANGED gen

\* the else branches of the 50 ms timers, 197-202 and 272-277
workerUnavailable(c, d) ==
  IF d.kind = "submit"
    THEN [c EXCEPT !.isProcessing = FALSE, !.isProcessingRef = FALSE,
                   !.messages = d.currentMessagesForDisplay,
                   !.toastError = TRUE]
    ELSE [c EXCEPT !.isProcessing = FALSE, !.isProcessingRef = FALSE,
                   !.toastError = TRUE]

\* the 50 ms timer of handleSubmit 262-279 and of
\* generateWelcomeBackMessage 187-203
DispatchTimer ==
  /\ chat.dispatchTimers # <<>>
  /\ LET d == Head(chat.dispatchTimers)
         req == chat.genPosted + 1
     IN IF chat.llamaWorker
          THEN /\ chat' = [chat EXCEPT !.dispatchTimers = Tail(@),
                                       !.genPosted = req,
                                       !.openTurns = @ \cup {req},
                                       !.turns = Append(@, [text |-> d.text, end |-> "open"])]
               /\ gen' = genListener(gen, "generate", req)
          ELSE /\ chat' = workerUnavailable([chat EXCEPT !.dispatchTimers = Tail(@)], d)
               /\ UNCHANGED gen

\* the 100 ms timer of the complete handler, 431-434
ResetTimerFire ==
  /\ chat.resetTimers > 0
  /\ chat' = [chat EXCEPT !.resetTimers = @ - 1,
                          !.latestUserSubmitRef = <<>>,
                          !.latestResponseRef = <<>>]
  /\ UNCHANGED gen

\* the listener on an interrupt message
GenInterrupt ==
  /\ gen' = [gen EXCEPT !.isInterrupted = TRUE]
  /\ UNCHANGED chat

\* a generate message reaches the actor's listener
ActorGenerate ==
  /\ chat.genPosted < MaxSubmits
  /\ chat' = [chat EXCEPT !.genPosted = @ + 1]
  /\ gen' = genListener(gen, "generate", chat.genPosted + 1)

StreamChunk ==
  /\ gen.job.type # "none"
  /\ gen.job.chunks < MaxTokens
  /\ gen' = onChunk(gen, gen.script[(gen.job.chunks % Len(gen.script)) + 1])
  /\ UNCHANGED chat

\* the line data: [DONE]
StreamDone ==
  /\ gen.job.type # "none"
  /\ gen' = genFinally(onComplete(gen))
  /\ UNCHANGED chat

\* the body ends with no [DONE] line: streamChat returns, nothing is posted
StreamClosed ==
  /\ gen.job.type # "none"
  /\ gen' = genFinally(gen)
  /\ UNCHANGED chat

\* fetch, the HTTP status or a read fails
StreamError ==
  /\ gen.job.type # "none"
  /\ gen' = genFinally(onError(gen))
  /\ UNCHANGED chat

-----------------------------------------------------------------------------
(* Specifications *)
Init == InitPlay /\ InitTts /\ InitRec /\ InitTurn

NextPlay ==
  \/ HandleAudioChunk /\ UNCHANGED <<ttsVars, recVars, turnVars>>
  \/ PlaybackEffect /\ UNCHANGED <<ttsVars, recVars, turnVars>>
  \/ AudioEnded /\ UNCHANGED <<ttsVars, recVars, turnVars>>
  \/ AudioError /\ UNCHANGED <<ttsVars, recVars, turnVars>>

SpecPlay == Init /\ [][NextPlay]_vars

\* a clip that was started ends or fails, and the playback effect runs
SpecPlayFair ==
  /\ SpecPlay
  /\ WF_vars((AudioEnded \/ AudioError) /\ UNCHANGED <<ttsVars, recVars, turnVars>>)
  /\ WF_vars(PlaybackEffect /\ UNCHANGED <<ttsVars, recVars, turnVars>>)

\* playback with the component's unmount
NextTeardown ==
  \/ HandleAudioChunk /\ UNCHANGED <<ttsVars, recVars, turnVars>>
  \/ PlaybackEffect /\ UNCHANGED <<ttsVars, recVars, turnVars>>
  \/ AudioEnded /\ UNCHANGED <<ttsVars, recVars, turnVars>>
  \/ AudioError /\ UNCHANGED <<ttsVars, recVars, turnVars>>
  \/ Unmount /\ UNCHANGED <<ttsVars, recVars, turnVars>>

SpecTeardown == Init /\ [][NextTeardown]_vars

NextTts ==
  \/ (\E text \in SpeakInputs : SpeakText(text)) /\ UNCHANGED <<playVars, recVars, turnVars>>
  \/ TtsSynthResolved /\ UNCHANGED <<playVars, recVars, turnVars>>
  \/ TtsSynthRejected /\ UNCHANGED <<playVars, recVars, turnVars>>
  \/ TtsTimerFire /\ UNCHANGED <<playVars, recVars, turnVars>>

SpecTts == Init /\ [][NextTts]_vars

\* synthesis calls terminate, and a timer that was set fires
SpecTtsFair ==
  /\ SpecTts
  /\ WF_vars((TtsSynthResolved \/ TtsSynthRejected) /\ UNCHANGED <<playVars, recVars, turnVars>>)
  /\ WF_vars(TtsTimerFire /\ UNCHANGED <<playVars, recVars, turnVars>>)

NextRec ==
  \/ MicInit /\ UNCHANGED <<playVars, ttsVars, turnVars>>
  \/ StartRecording /\ UNCHANGED <<playVars, ttsVars, turnVars>>
  \/ StopRecording /\ UNCHANGED <<playVars, ttsVars, turnVars>>
  \/ DataAvailable /\ UNCHANGED <<playVars, ttsVars, turnVars>>
  \/ OnStop /\ UNCHANGED <<playVars, ttsVars, turnVars>>
  \/ FlushTick /\ UNCHANGED <<playVars, ttsVars, turnVars>>
  \/ (\E i \in 1..MaxProcs, result \in {"null", "silent", "loud"} : DecodeDone(i, result))
       /\ UNCHANGED <<playVars, ttsVars, turnVars>>
  \/ (\E i \in 1..MaxProcs, outcome \in {"text", "empty", "throw"} : TranscribeDone(i, outcome))
       /\ UNCHANGED <<playVars, ttsVars, turnVars>>
  \/ SilenceTimerFire /\ UNCHANGED <<playVars, ttsVars, turnVars>>
  \/ RefreshTimerFire /\ UNCHANGED <<playVars, ttsVars, turnVars>>
  \/ RefreshRestart /\ UNCHANGED <<playVars, ttsVars, turnVars>>

SpecRec == Init /\ [][NextRec]_vars

\* the 300 ms timer fires, the queued "stop" event is delivered, and a decode
\* or transcription that was started returns
SpecRecFair ==
  /\ SpecRec
  /\ WF_vars(RefreshRestart /\ UNCHANGED <<playVars, ttsVars, turnVars>>)
  /\ SF_vars(OnStop /\ UNCHANGED <<playVars, ttsVars, turnVars>>)
  /\ WF_vars((\E i \in 1..MaxProcs, result \in {"null", "silent", "loud"} : DecodeDone(i, result))
               /\ UNCHANGED <<playVars, ttsVars, turnVars>>)
  /\ WF_vars((\E i \in 1..MaxProcs, outcome \in {"text", "empty", "throw"} : TranscribeDone(i, outcome))
               /\ UNCHANGED <<playVars, ttsVars, turnVars>>)

NextWindow ==
  \/ HandleLlamaMessage /\ UNCHANGED <<playVars, ttsVars, recVars>>
  \/ MicStart /\ UNCHANGED <<playVars, ttsVars, recVars>>
  \/ MicStop /\ UNCHANGED <<playVars, ttsVars, recVars>>
  \/ (\E text \in UserTexts : TranscriptionUpdate(text)) /\ UNCHANGED <<playVars, ttsVars, recVars>>
  \/ SilenceSubmit /\ UNCHANGED <<playVars, ttsVars, recVars>>
  \/ (\E i \in 1..MaxSubmits, ctx \in Contexts : ContextBuilt(i, ctx))
       /\ UNCHANGED <<playVars, ttsVars, recVars>>
  \/ DispatchTimer /\ UNCHANGED <<playVars, ttsVars, recVars>>
  \/ ResetTimerFire /\ UNCHANGED <<playVars, ttsVars, recVars>>
  \/ StreamChunk /\ UNCHANGED <<playVars, ttsVars, recVars>>
  \/ StreamDone /\ UNCHANGED <<playVars, ttsVars, recVars>>
  \/ StreamClosed /\ UNCHANGED <<playVars, ttsVars, recVars>>
  \/ StreamError /\ UNCHANGED <<playVars, ttsVars, recVars>>

NextTurn ==
  \/ ReadyTimer1 /\ UNCHANGED <<playVars, ttsVars, recVars>>
  \/ (\E visitedFlag \in BOOLEAN : InputReadyEffect(visitedFlag))
       /\ UNCHANGED <<playVars, ttsVars, recVars>>
  \/ NextWindow

SpecTurn == Init /\ [][NextTurn]_vars

InitConversation == InitPlay /\ InitTts /\ InitRec /\ InitWindow

SpecWindow == InitConversation /\ [][NextWindow]_vars

InitNoActor == InitPlay /\ InitTts /\ InitRec /\ InitDetached

\* one submission, with the actor reference set or null
SpecNoActor == InitNoActor /\ [][NextWindow]_vars

\* one submission in an established conversation, its text drawn from
\* MemoryTexts
NextMemory ==
  \/ HandleLlamaMessage /\ UNCHANGED <<playVars, ttsVars, recVars>>
  \/ MicStart /\ UNCHANGED <<playVars, ttsVars, recVars>>
  \/ MicStop /\ UNCHANGED <<playVars, ttsVars, recVars>>
  \/ (\E text \in MemoryTexts : TranscriptionUpdate(text)) /\ UNCHANGED <<playVars, ttsVars, recVars>>
  \/ SilenceSubmit /\ UNCHANGED <<playVars, ttsVars, recVars>>
  \/ (\E i \in 1..MaxSubmits, ctx \in Contexts : ContextBuilt(i, ctx))
       /\ UNCHANGED <<playVars, ttsVars, recVars>>
  \/ DispatchTimer /\ UNCHANGED <<playVars, ttsVars, recVars>>
  \/ ResetTimerFire /\ UNCHANGED <<playVars, ttsVars, recVars>>
  \/ StreamChunk /\ UNCHANGED <<playVars, ttsVars, recVars>>
  \/ StreamDone /\ UNCHANGED <<playVars, ttsVars, recVars>>
  \/ StreamClosed /\ UNCHANGED <<playVars, ttsVars, recVars>>
  \/ StreamError /\ UNCHANGED <<playVars, ttsVars, recVars>>

SpecMemory == InitConversation /\ [][NextMemory]_vars

\* a long input, which the memory policy has summarized, and a short one
SummaryTexts == {Str_Trip, Str_Favorite}

\* the application is ready and the microphone is on, in a new conversation;
\* every submit call of the run is still to come
InitSummary ==
  /\ chat = [InitChat EXCEPT !.llamaStatus = "ready", !.status = "ready",
                             !.inputReady = TRUE, !.recording = "on"]
  /\ gen = [isProcessing |-> FALSE, isInterrupted |-> FALSE, job |-> NoJob,
            outbox |-> <<>>, script |-> ReplyTokens]

InitLongInput == InitPlay /\ InitTts /\ InitRec /\ InitSummary

\* two submissions, their texts drawn from SummaryTexts
NextSummary ==
  \/ HandleLlamaMessage /\ UNCHANGED <<playVars, ttsVars, recVars>>
  \/ MicStart /\ UNCHANGED <<playVars, ttsVars, recVars>>
  \/ MicStop /\ UNCHANGED <<playVars, ttsVars, recVars>>
  \/ (\E text \in SummaryTexts : TranscriptionUpdate(text)) /\ UNCHANGED <<playVars, ttsVars, recVars>>
  \/ SilenceSubmit /\ UNCHANGED <<playVars, ttsVars, recVars>>
  \/ (\E i \in 1..MaxSubmits, ctx \in Contexts : ContextBuilt(i, ctx))
       /\ UNCHANGED <<playVars, ttsVars, recVars>>
  \/ DispatchTimer /\ UNCHANGED <<playVars, ttsVars, recVars>>
  \/ ResetTimerFire /\ UNCHANGED <<playVars, ttsVars, recVars>>
  \/ StreamChunk /\ UNCHANGED <<playVars, ttsVars, recVars>>
  \/ StreamDone /\ UNCHANGED <<playVars, ttsVars, recVars>>
  \/ StreamClosed /\ UNCHANGED <<playVars, ttsVars, recVars>>
  \/ StreamError /\ UNCHANGED <<playVars, ttsVars, recVars>>

SpecSummary == InitLongInput /\ [][NextSummary]_vars

\* the texts spoken while interrupts arrive
InterruptTexts == {Str_HelloWorld, Str_Bye}

\* the two actors alone, with requests and interrupt messages arriving
NextInterrupt ==
  \/ (\E text \in InterruptTexts : SpeakText(text)) /\ UNCHANGED <<playVars, recVars, turnVars>>
  \/ TtsSynthResolved /\ UNCHANGED <<playVars, recVars, turnVars>>
  \/ TtsSynthRejected /\ UNCHANGED <<playVars, recVars, turnVars>>
  \/ TtsTimerFire /\ UNCHANGED <<playVars, recVars, turnVars>>
  \/ TtsInterrupt /\ UNCHANGED <<playVars, recVars, turnVars>>
  \/ ActorGenerate /\ UNCHANGED <<playVars, ttsVars, recVars>>
  \/ GenInterrupt /\ UNCHANGED <<playVars, ttsVars, recVars>>
  \/ StreamChunk /\ UNCHANGED <<playVars, ttsVars, recVars>>
  \/ StreamDone /\ UNCHANGED <<playVars, ttsVars, recVars>>
  \/ StreamClosed /\ UNCHANGED <<playVars, ttsVars, recVars>>
  \/ StreamError /\ UNCHANGED <<playVars, ttsVars, recVars>>

SpecInterrupt == Init /\ [][NextInterrupt]_vars

-----------------------------------------------------------------------------
(* C10: the playback queue never holds more than 10 clips, and it holds     *)
(* exactly the most recently arrived clips, in arrival order: clip numbers  *)
(* are arrival numbers, so the queue is the run of numbers ending at the    *)
(* latest arrival; an evicted clip is older than every queued clip, and the *)
(* clip handed to the audio element is older than every queued clip.        *)
C10_QueueBoundedNewestKept ==
  /\ Len(audioChunkQueue) <= AUDIO_QUEUE_LIMIT
  /\ \A i \in 1..Len(audioChunkQueue) :
        audioChunkQueue[i] = clipCount - Len(audioChunkQueue) + i
  /\ \A e \in evicted : \A i \in 1..Len(audioChunkQueue) : e < audioChunkQueue[i]
  /\ \A i \in 1..Len(audioChunkQueue) : audioSrc < audioChunkQueue[i]
  /\ \A e \in evicted : e # audioSrc

\* a clip was evicted and the queue holds the 10 newest
C10_Witness ==
  /\ evicted # {}
  /\ Len(audioChunkQueue) = AUDIO_QUEUE_LIMIT
  /\ audioChunkQueue[AUDIO_QUEUE_LIMIT] = clipCount

(* C3: within a recording session every silence episode has its firing      *)
(* armed: while an episode is under way (a silent window was processed with *)
(* speech transcribed, and nothing ended the episode) the silence timer is  *)
(* pending, and onSilenceDetected is called at most once per armed timer.   *)
C3_EverySilenceEpisodeIsArmed ==
  rec.episodeOpen => rec.silenceTimerRef

(* C4: in a session in which no audio of that session has been transcribed, *)
(* no silence timer is pending and onSilenceDetected has not been called.   *)
C4_NoSilenceBeforeSessionSpeech ==
  (rec.isRecordingRef /\ ~rec.sessionTranscribed) =>
     (~rec.silenceTimerRef /\ rec.silenceFired = 0)

(* C2: the synthesis calls start in the order the requests arrived.         *)
C2_SynthesisStartsInArrivalOrder ==
  \A i, j \in 1..Len(ttsStarted) : i < j => ttsStarted[i] < ttsStarted[j]

(* C9: the speech queue never holds two entries with the same text.         *)
C9_QueueHoldsNoDuplicateText ==
  \A i, j \in 1..Len(requestQueue) :
     i # j => requestQueue[i].text # requestQueue[j].text

(* C1: at most one Turn is active: no generate request is posted while an   *)
(* earlier one has had neither its complete nor its error event handled.    *)
C1_AtMostOneActiveTurn ==
  Cardinality(chat.openTurns) <= 1

\* the generation requests a submission has produced: in preparation, waiting
\* for the dispatch timer, or posted
Requests(c) == Len(c.contextPending) + Len(c.dispatchTimers) + c.genPosted

(* C5: a submit call whose trimmed text equals the text of the previous     *)
(* submit call (no recording start in between) produces no generation       *)
(* request, a submit call with another text produces exactly one, and no    *)
(* other step produces or loses one: two consecutive calls with the same    *)
(* text yield exactly one request.                                          *)
C5_DuplicateSubmitDispatchesOnce ==
  [][/\ \A text \in UserTexts :
          (~chat.isProcessingRef /\ chat' = handleTranscriptionUpdate(chat, text)) =>
             IF Trim(text) = chat.prevSubmit
               THEN Requests(chat') = Requests(chat)
               ELSE Requests(chat') = Requests(chat) + 1
     /\ Requests(chat') # Requests(chat) =>
          /\ Requests(chat') = Requests(chat) + 1
          /\ chat'.submits = chat.submits + 1]_vars

\* two submit calls carried text, the second one repeated the first, and the
\* one request they produced has been posted
C5_Witness ==
  /\ chat.submits = 2
  /\ chat.prevSubmit # <<>>
  /\ Requests(chat) = 1
  /\ chat.genPosted = 1

(* C6: a submit call without text (every utterance-ended event) changes     *)
(* neither the message list, nor the last submitted text, nor isProcessing, *)
(* and produces no generation request.                                      *)
C6_BlankSubmitIsIgnored ==
  [][(chat.recording = "on" /\ chat' = handleSilenceSubmit(chat)) =>
       /\ chat'.messages = chat.messages
       /\ chat'.lastSubmittedTextRef = chat.lastSubmittedTextRef
       /\ chat'.isProcessing = chat.isProcessing
       /\ Requests(chat') = Requests(chat)]_vars

(* C7: the message list composed for an accepted text t over the history h  *)
(* is the last 10 elements of h followed by the user message t, preceded by *)
(* one system message carrying the context exactly when the context is not  *)
(* empty.                                                                   *)
C7_WindowIsLastTenOfHistoryAndText ==
  \A k \in 1..Len(chat.dispatchTimers) :
     LET d == chat.dispatchTimers[k]
         full == Append(d.history, Message("user", d.text))
         body == IF d.context # <<>> THEN Tail(d.messages) ELSE d.messages
         n == IF Len(full) < 10 THEN Len(full) ELSE 10
     IN d.kind = "submit" =>
          /\ d.context # <<>> => d.messages[1] = Message("system", d.context)
          /\ Len(body) = n
          /\ \A i \in 1..n : body[i] = full[Len(full) - n + i]
          /\ body[n] = Message("user", d.text)
          /\ \A i \in 1..n : body[i].role # "system"

\* a list composed over a history of more than 10 messages, with a context
C7_Witness ==
  \E k \in 1..Len(chat.dispatchTimers) :
     /\ chat.dispatchTimers[k].kind = "submit"
     /\ Len(chat.dispatchTimers[k].history) > 10
     /\ chat.dispatchTimers[k].context # <<>>
     /\ Len(chat.dispatchTimers[k].messages) = 11

(* C8: for the reply to the first submission, streamed as "Hi there. "     *)
(* then "How are you?", the speech request "Hi there." has been posted,     *)
(* alone, when the second token is handled, and when the complete event has *)
(* been handled the speech requests posted are "Hi there." and              *)
(* "How are you?".                                                          *)
C8_SpeechAtSentenceBoundaries ==
  [][(gen.outbox # <<>> /\ chat.genPosted = 1 /\ chat.submits = 1
        /\ chat.prevSubmit # <<>>) =>
       LET e == Head(gen.outbox) IN
       chat' = handleLlamaMessage(chat, e) =>
         /\ (e.status = "update" /\ e.output = Tok_HowAreYou
               /\ chat.latestResponseRef = Tok_HiThere)
              => chat.spoken = <<Str_HiThere>>
         /\ (e.status = "complete" /\ e.output = Tok_HiThere \o Tok_HowAreYou)
              => chat'.spoken = <<Str_HiThere, Tok_HowAreYou>>]_vars

PassesGate(u) ==
  /\ Len(u) > 10
  /\ ~Includes(ToLowerCase(u), <<"h","e","l","l","o">>)
  /\ ~Includes(ToLowerCase(u), <<"h","i">>)
  /\ ~Includes(ToLowerCase(u), <<"h","e","y">>)

NoDenial(reply) ==
  \A phrase \in DENIAL_PHRASES_FOR_STORAGE : ~Includes(ToLowerCase(reply), phrase)

C13_ShortInputNeverStored ==
  \A text \in MemoryTexts : WordCount(text) <= 2 => Trim(text) \notin chat.memory

(* C14: after an error event of the generation actor that ends the turn of  *)
(* a user submission has been handled, the active-turn flag isProcessing    *)
(* (state and ref) is false.                                                *)
C14_ErrorEventClearsProcessing ==
  [][(/\ gen.outbox # <<>>
      /\ chat.prevSubmit # <<>>
      /\ Head(gen.outbox).status = "error"
      /\ chat' = handleLlamaMessage(chat, Head(gen.outbox))
      /\ gen' = [gen EXCEPT !.outbox = Tail(@)]) =>
       (~chat'.isProcessing /\ ~chat'.isProcessingRef)]_vars

(* C15: handling an error event of the generation actor leaves the          *)
(* microphone control present and enabled, so that a new recording can be   *)
(* started at once.                                                         *)
C15_MicAvailableAfterFailure ==
  [][(/\ gen.outbox # <<>>
      /\ Head(gen.outbox).status = "error"
      /\ chat' = handleLlamaMessage(chat, Head(gen.outbox))
      /\ micButton(chat)) =>
       micButton(chat')]_vars

(* C16: the user text of a turn that ended with a generation error (a       *)
(* request the busy actor rejected included) is not written to memory,      *)
(* unless a turn with the same text has completed.                          *)
C16_NoMemoryWriteForFailedTurn ==
  \A i \in 1..Len(chat.turns) :
    (chat.turns[i].end = "error" /\ chat.turns[i].text \in chat.memory) =>
      \E j \in 1..Len(chat.turns) :
        chat.turns[j].end = "complete" /\ chat.turns[j].text = chat.turns[i].text

C18_StreamEndPostsTerminalEvent ==
  [][(gen.job.type = "generate" /\ gen'.job.type = "none") =>
       /\ Len(gen'.outbox) > Len(gen.outbox)
       /\ LET last == gen'.outbox[Len(gen'.outbox)]
          IN last.status \in {"complete", "error"} /\ last.req = gen.job.req]_vars

TtsIds(s) == {s[i] : i \in 1..Len(s)}

C20_OneSynthesisInFlight ==
  [][(Len(ttsStarted') > Len(ttsStarted)) =>
       /\ ttsCurrent = NoRequest
       /\ ~ttsIsProcessing
       /\ Len(ttsStarted') = Len(ttsStarted) + 1
       /\ ttsCurrent'.id = ttsStarted'[Len(ttsStarted')]]_vars

\* one call is in progress while a request waits in the queue and another
\* on its re-dispatch timer
C20_Witness ==
  /\ ttsCurrent # NoRequest
  /\ requestQueue # <<>>
  /\ ttsTimers # <<>>

(* C21: when the main thread handles a sentence the actor emitted at a      *)
(* sentence boundary (not the remainder sent with the complete event), it   *)
(* sends exactly one speech request that carries the sentence's text.       *)
C21_BoundarySentenceIsSpoken ==
  [][(/\ gen.outbox # <<>>
      /\ Head(gen.outbox).status = "sentence_ready"
      /\ (Len(gen.outbox) = 1 \/ gen.outbox[2].status # "complete")
      /\ gen'.outbox = Tail(gen.outbox)) =>
       chat'.spoken = Append(chat.spoken, StripStars(Head(gen.outbox).sentence))]_vars

(* C22: between a start event and the next complete or error event the      *)
(* running transcript equals the concatenation of the tokens received since *)
(* the start, and the content of the trailing assistant message is that     *)
(* value.                                                                   *)
C22_TranscriptOnlyGrows ==
  chat.streaming =>
    /\ chat.latestResponseRef = chat.received
    /\ chat.messages # <<>>
    /\ chat.messages[Len(chat.messages)] = Message("assistant", chat.received)

(* C23: an assistant message that is open (its content still empty) is the  *)
(* last element of the message list, so there is at most one.               *)
C23_OpenAssistantMessageIsLast ==
  \A i \in 1..Len(chat.messages) :
    chat.messages[i] = Message("assistant", <<>>) => i = Len(chat.messages)

(* C24: handling a complete event sets the content of the trailing          *)
(* assistant message to the event's full text (to the accumulated           *)
(* transcript when the payload is absent or empty), sends a non-empty       *)
(* remaining sentence buffer as one speech request and leaves the sentence  *)
(* buffer empty.                                                            *)
C24_CompleteFinalizesMessage ==
  [][(/\ gen.outbox # <<>>
      /\ Head(gen.outbox).status = "complete"
      /\ chat' = handleLlamaMessage(chat, Head(gen.outbox))
      /\ gen'.outbox # gen.outbox) =>
       LET e == Head(gen.outbox)
           full == IF e.output = Absent \/ e.output = <<>>
                     THEN chat.latestResponseRef ELSE e.output
           rem == Trim(chat.currentSentenceBufferRef)
       IN /\ chat'.messages # <<>>
          /\ chat'.messages[Len(chat'.messages)] = Message("assistant", full)
          /\ Len(chat'.messages) = Len(chat.messages)
          /\ chat'.spoken = IF rem # <<>> THEN Append(chat.spoken, StripStars(rem))
                                         ELSE chat.spoken
          /\ chat'.currentSentenceBufferRef = <<>>]_vars

\* the reply "Hi there. How are you?" to a submission has been completed:
\* it is the content of the last message and it was sent to be spoken
C24_Witness ==
  /\ \E i \in 1..Len(chat.turns) :
       chat.turns[i].end = "complete" /\ chat.turns[i].text # <<>>
  /\ ~chat.streaming
  /\ chat.messages # <<>>
  /\ chat.messages[Len(chat.messages)] = Message("assistant", Tok_HiThere \o Tok_HowAreYou)
  /\ chat.spoken = <<Tok_HiThere \o Tok_HowAreYou>>
  /\ chat.currentSentenceBufferRef = <<>>

(* C25: there is one playing slot: while a clip is playing, and while the    *)
(* queue is empty, no step starts a clip (the audio source stays and the    *)
(* playing flag is not raised), and a starting clip is the queue's head.    *)
C25_SinglePlayingSlot ==
  [][/\ (isAudioPlaying \/ Len(audioChunkQueue) = 0) =>
          (audioSrc' = audioSrc /\ (isAudioPlaying' => isAudioPlaying))
     /\ (audioSrc' # audioSrc) =>
          (audioSrc' = audioChunkQueue[1] /\ isAudioPlaying')]_vars

\* the third clip is playing while later clips wait in the queue
C25_Witness ==
  isAudioPlaying /\ audioSrc = 3 /\ Len(audioChunkQueue) >= 2

C27_NoHandleSurvivesTeardown ==
  unmounted => objectUrls = {}

\* C28: at most one refresh is in progress at a time.  While isRefreshingRef
\* is set exactly one restart timer is pending, and a step taken while it is
\* set and recording goes on does not stop the capture device (a
\* refreshRecorder call made then returns at its guard); every refresh that
\* sets the flag eventually clears it.
C28_OneRefreshAtATime ==
  /\ [](rec.isRefreshingRef <=> rec.restartTimer)
  /\ [][(rec.isRefreshingRef /\ rec.isRecordingRef /\ rec'.isRecordingRef) =>
          (/\ rec'.recorderState = "recording" \/ rec.recorderState # "recording"
           /\ rec'.onstopPending <= rec.onstopPending
           /\ rec'.refreshSession = rec.refreshSession)]_vars
  /\ rec.isRefreshingRef ~> ~rec.isRefreshingRef

\* a refresh of the first session is still in progress in the second session,
\* whose 30 s timer has fired and called refreshRecorder: the device records on
C28_Witness ==
  /\ rec.isRefreshingRef /\ rec.restartTimer
  /\ rec.isRecordingRef /\ rec.recorderState = "recording"
  /\ rec.session = 2 /\ rec.refreshSession = 1
  /\ ~rec.recorderRefreshTimeoutRef

\* C29: when the 300 ms timer of a refresh fires while recording and the
\* capture device is not inactive, the restart is aborted, recording ends
\* (isRecording becomes false) and the hook's error value is set.
C29_FailedRestartEndsRecording ==
  [][(/\ rec.restartTimer /\ ~rec'.restartTimer
      /\ rec.isRecordingRef /\ rec.recorderRef
      /\ rec.recorderState # "inactive") =>
       (~rec'.isRecordingRef /\ rec'.error)]_vars

\* C30: when a transcription attempt fails while recording (the call throws
\* and the hook's error is set), the chunk buffer is cleared, isRecording
\* stays true, isTranscribing returns to false and the flush interval keeps
\* running.
C30_FailedTranscriptionClearsBuffer ==
  [][(/\ Len(rec'.procs) < Len(rec.procs)
      /\ ~rec.error /\ rec'.error
      /\ rec.isRecordingRef) =>
       (/\ rec'.audioChunksRef = 0
        /\ rec'.isRecordingRef
        /\ ~rec'.isTranscribing
        /\ rec'.processingIntervalRef)]_vars

\* C31: at most one transcription request is in flight at any time, whether
\* processLatestAudio is called by the flush tick or by the recorder's onstop
\* handler.
C31_OneTranscriptionInFlight ==
  Cardinality({i \in 1..Len(rec.procs) :
                 rec.procs[i].stage \in {"transcribe", "fallback"}}) <= 1

\* C32: once recording has been stopped, the flush interval, the refresh timer
\* and the silence timer are cancelled, the capture device is inactive, and
\* the microphone stream and the audio context are released (recorderRef and
\* audioContextRef are null); until the next start no refresh is started, no
\* device stop is issued and onSilenceDetected is not called.
C32_StopReleasesEverything ==
  /\ []((~rec.isRecordingRef /\ rec.session > 0) =>
          (/\ ~rec.processingIntervalRef
           /\ ~rec.recorderRefreshTimeoutRef
           /\ ~rec.silenceTimerRef
           /\ rec.recorderState = "inactive"
           /\ ~rec.recorderRef))
  /\ [][(~rec.isRecordingRef /\ ~rec'.isRecordingRef /\ rec.session > 0) =>
          (/\ rec'.silenceFired = rec.silenceFired
           /\ rec'.refreshSession = rec.refreshSession
           /\ rec'.isRefreshingRef => rec.isRefreshingRef
           /\ rec'.onstopPending <= rec.onstopPending)]_vars

\* C33: stop is idempotent.  A stopRecordingInternal call made right after a
\* stop leaves the state the stop produced (no further device stop, no
\* processLatestAudio call, no callback), and a call made while not recording
\* changes nothing.
C33_StopIsIdempotent ==
  /\ [][(rec.isRecordingRef /\ rec' = stopRecordingInternal(rec)) =>
          stopRecordingInternal(rec') = rec']_vars
  /\ [](~rec.isRecordingRef => stopRecordingInternal(rec) = rec)

\* recording was stopped while a transcription was awaited: the stop event is
\* queued, and the transcription has set hasTranscribedSpeechRef since
C33_Witness ==
  /\ ~rec.isRecordingRef /\ rec.recorderRef /\ rec.session > 0
  /\ rec.onstopPending > 0
  /\ rec.hasTranscribedSpeechRef

\* C34: every start leaves the chunk buffer empty, no silence timer pending,
\* the silence start time unset and hasTranscribedSpeech false, with the flush
\* interval and the refresh timer running.
C34_StartResetsSilenceState ==
  [][(~rec.isRecordingRef /\ rec'.isRecordingRef) =>
       (/\ rec'.audioChunksRef = 0
        /\ ~rec'.silenceTimerRef
        /\ ~rec'.silenceStartTimeRef
        /\ ~rec'.hasTranscribedSpeechRef
        /\ rec'.processingIntervalRef
        /\ rec'.recorderRefreshTimeoutRef)]_vars

\* C35: once an actor has received an interrupt while a request is in flight,
\* it posts no update, sentence_ready or complete event (generation actor) and
\* no stream event (synthesis actor) for that request; the interrupt leaves
\* the call in flight, and the actor is idle when the call has returned.
C35_InterruptSilencesActor ==
  /\ [][(gen.isInterrupted /\ gen.job.type # "none") =>
          (/\ Len(gen'.outbox) >= Len(gen.outbox)
           /\ \A i \in (Len(gen.outbox) + 1)..Len(gen'.outbox) :
                 gen'.outbox[i].status \notin {"update", "sentence_ready", "complete"}
           /\ gen'.job.type = "none" => ~gen'.isProcessing)]_vars
  /\ [][(ttsIsInterrupted /\ ttsCurrent # NoRequest) =>
          (/\ ttsStreamed' = ttsStreamed
           /\ ttsCurrent' = NoRequest => ~ttsIsProcessing')]_vars
  /\ [][(~gen.isInterrupted /\ gen'.isInterrupted) =>
          (gen'.job = gen.job /\ gen'.isProcessing = gen.isProcessing)]_vars
  /\ [][(~ttsIsInterrupted /\ ttsIsInterrupted') =>
          (ttsCurrent' = ttsCurrent /\ ttsIsProcessing' = ttsIsProcessing)]_vars

\* the generation actor was interrupted after the first token of a reply: the
\* stream has delivered two tokens and one update was posted; the synthesis
\* actor was interrupted while its call is awaited
C35_Witness ==
  /\ gen.isInterrupted /\ gen.isProcessing
  /\ gen.job.type = "generate" /\ gen.job.chunks = 2
  /\ Cardinality({i \in 1..Len(gen.outbox) : gen.outbox[i].status = "update"}) = 1
  /\ ttsIsInterrupted /\ ttsCurrent # NoRequest /\ ttsIsProcessing

\* C36: a generate request dispatched for a new Turn when every earlier Turn
\* has completed is accepted by the generation actor: the actor starts
\* streaming it and does not answer "Already processing another request",
\* also while the summarization requested for the previous Turn is running.
C36_NewTurnIsAccepted ==
  [][(/\ chat'.genPosted = chat.genPosted + 1
      /\ chat.openTurns = {}
      /\ \A i \in 1..Len(chat.turns) : chat.turns[i].end = "complete") =>
       (/\ gen'.job.type = "generate"
        /\ gen'.job.req = chat'.genPosted
        /\ gen'.outbox[Len(gen'.outbox)].status = "start")]_vars

\* C37: when the complete event of a Turn that carries user text is handled,
\* the user text the memory policy reads (latestUserSubmitRef) is the text of
\* that Turn.
C37_MemoryPolicyReadsOwnTurn ==
  [][(/\ gen.outbox # <<>>
      /\ Head(gen.outbox).status = "complete"
      /\ Head(gen.outbox).req \in 1..Len(chat.turns)
      /\ chat.turns[Head(gen.outbox).req].text # <<>>
      /\ chat' = handleLlamaMessage(chat, Head(gen.outbox))) =>
       chat.latestUserSubmitRef = chat.turns[Head(gen.outbox).req].text]_vars

\* C38: within one Turn no reply text is sent to speech twice: the text the
\* complete handler flushes to speech contains none of the speech requests
\* sent since the Turn's start event, and these are pairwise different.
C38_NoTextSpokenTwice ==
  [][(/\ gen.outbox # <<>>
      /\ Head(gen.outbox).status = "complete"
      /\ chat' = handleLlamaMessage(chat, Head(gen.outbox))
      /\ gen'.outbox # gen.outbox) =>
       (/\ \A i \in 1..Len(chat.spoken) :
             ~Includes(StripStars(Trim(chat.currentSentenceBufferRef)), chat.spoken[i])
        /\ \A i, j \in 1..Len(chat'.spoken) :
             i # j => chat'.spoken[i] # chat'.spoken[j])]_vars

\* the reply "How are you? Hi there." has completed: the actor announced its
\* first sentence at the boundary, and the whole reply was sent to speech once
C38_Witness ==
  /\ gen.script = ReplySentences
  /\ \E i \in 1..Len(chat.turns) : chat.turns[i].end = "complete"
  /\ ~chat.streaming
  /\ chat.received = Tok_HowAreYouThen \o Str_HiThere
  /\ chat.spoken = <<Tok_HowAreYouThen \o Str_HiThere>>

C40_QueuedRequestsAreResumed ==
  requestQueue # <<>> => (ttsCurrent # NoRequest \/ ttsTimers # <<>>)

\* the call has returned with two requests queued: the actor is idle, one
\* request waits for its timer and the other is still queued
C40_Witness ==
  /\ ~ttsIsProcessing /\ ttsCurrent = NoRequest
  /\ requestQueue # <<>>
  /\ Len(ttsTimers) = 1

=============================================================================
